---------------------------- MODULE Spec2Model ----------------------------
(***************************************************************************)
(* A model of src/main.py: the /fetch handler update_item, its two         *)
(* adapters fetch_youtube and fetch_ytdlp, their process-lifetime caches,  *)
(* and the pure helpers they call.                                         *)
(*                                                                         *)
(* Representation.  A Python str the code inspects character by character  *)
(* (a URL, a netloc, a path, a duration token, a date) is a sequence of    *)
(* one-character strings.  A Python str the code only passes along or      *)
(* formats (a title, an uploader name) is a sequence of fragments.  A      *)
(* Python value that may be None is a tagged record (None, Str, PyInt).  A *)
(* call that may raise returns [ok |-> TRUE, val |-> v] or                 *)
(* [ok |-> FALSE, err |-> "<exception class>"].                            *)
(***************************************************************************)
EXTENDS Integers, Sequences, FiniteSets

VARIABLES
    yt_cache,     \* main.py:22   video id -> record
    ytdlp_cache,  \* main.py:121  accepted domain -> (video id -> record)
    pc,           \* per worker thread: "idle", "running" or "waiting"
    urls,         \* per worker: the argument of its last update_item call
    pending,      \* per waiting worker: the upstream call it is inside
    log,          \* per worker, per URL handled of that call: what was done
    returned,     \* per worker: what that call produced, a list or an error
    fetched_ok,   \* URLs whose fetch has already stored a record (history)
    nreq,         \* number of update_item calls so far
    nurls,        \* number of URLs those calls were given
    dur_in,       \* the segments of the duration token to convert
    dur_out       \* what convert_iso8601_duration_to_seconds made of it

vars == <<yt_cache, ytdlp_cache, pc, urls, pending, log, returned,
          fetched_ok, nreq, nurls, dur_in, dur_out>>

----------------------------------------------------------------------------
\* Python values

None == [t |-> "None"]
Str(s) == [t |-> "str", v |-> s]
PyInt(n) == [t |-> "int", v |-> n]
PyFloat(x) == [t |-> "float", v |-> x]

Ok(v) == [ok |-> TRUE, val |-> v]
Raise(e) == [ok |-> FALSE, err |-> e]

\* dict.get(key): the value, or None when the key is absent
Get(d, key) == IF key \in DOMAIN d THEN d[key] ELSE None

----------------------------------------------------------------------------
\* str methods, on sequences of characters (indexes are 1-based; 0 = absent)

Digits == {"0", "1", "2", "3", "4", "5", "6", "7", "8", "9"}

DigitVal(c) ==
    CASE c = "0" -> 0 [] c = "1" -> 1 [] c = "2" -> 2 [] c = "3" -> 3
      [] c = "4" -> 4 [] c = "5" -> 5 [] c = "6" -> 6 [] c = "7" -> 7
      [] c = "8" -> 8 [] c = "9" -> 9

Lower == {"a", "b", "c", "d", "e", "f", "g", "h", "i", "j", "k", "l", "m",
          "n", "o", "p", "q", "r", "s", "t", "u", "v", "w", "x", "y", "z"}

Upper == {"A", "B", "C", "D", "E", "F", "G", "H", "I", "J", "K", "L", "M",
          "N", "O", "P", "Q", "R", "S", "T", "U", "V", "W", "X", "Y", "Z"}

\* s.find(c) for a one-character c
Find(s, c) ==
    LET hits == {i \in 1..Len(s) : s[i] = c}
    IN  IF hits = {} THEN 0 ELSE CHOOSE i \in hits : \A j \in hits : i <= j

\* s.rfind(c) for a one-character c
RFind(s, c) ==
    LET hits == {i \in 1..Len(s) : s[i] = c}
    IN  IF hits = {} THEN 0 ELSE CHOOSE i \in hits : \A j \in hits : i >= j

\* c in s
Contains(s, c) == \E i \in 1..Len(s) : s[i] = c

\* s.count(c)
Count(s, c) == Cardinality({i \in 1..Len(s) : s[i] = c})

\* s[i-1:] and s[:i-1] in 1-based terms
From(s, i) == SubSeq(s, i, Len(s))
Upto(s, i) == SubSeq(s, 1, i)

\* s.startswith(p), s.endswith(p)
StartsWith(s, p) == Len(s) >= Len(p) /\ SubSeq(s, 1, Len(p)) = p
EndsWith(s, p) ==
    Len(s) >= Len(p) /\ SubSeq(s, Len(s) - Len(p) + 1, Len(s)) = p

\* s.find(p, start) for a string p: the first index >= start where p occurs
FindStr(s, p, start) ==
    LET hits == {i \in start..(Len(s) - Len(p) + 1) :
                    SubSeq(s, i, i + Len(p) - 1) = p}
    IN  IF hits = {} THEN 0 ELSE CHOOSE i \in hits : \A j \in hits : i <= j

\* s.split(c): the pieces between the occurrences of c
RECURSIVE Split(_, _)
Split(s, c) ==
    LET i == Find(s, c)
    IN  IF i = 0 THEN <<s>>
        ELSE <<Upto(s, i - 1)>> \o Split(From(s, i + 1), c)

\* s.rstrip(c)
RECURSIVE RStrip(_, _)
RStrip(s, c) ==
    IF Len(s) > 0 /\ s[Len(s)] = c THEN RStrip(Upto(s, Len(s) - 1), c) ELSE s

\* s.replace(c, "")
Remove(s, c) == SelectSeq(s, LAMBDA x : x # c)

\* the value of a string of decimal digits
RECURSIVE DigitsVal(_)
DigitsVal(s) ==
    IF s = <<>> THEN 0
    ELSE 10 * DigitsVal(Upto(s, Len(s) - 1)) + DigitVal(s[Len(s)])

AllDigits(s) == s # <<>> /\ \A i \in 1..Len(s) : s[i] \in Digits

\* int(s): an optional sign and decimal digits, ValueError otherwise.  (Python
\* also accepts surrounding whitespace and "_" between digits; neither occurs
\* in a string this model passes to it.)
int(s) ==
    IF AllDigits(s) THEN Ok(DigitsVal(s))
    ELSE IF s # <<>> /\ s[1] = "-" /\ AllDigits(Tail(s))
         THEN Ok(0 - DigitsVal(Tail(s)))
    ELSE IF s # <<>> /\ s[1] = "+" /\ AllDigits(Tail(s))
         THEN Ok(DigitsVal(Tail(s)))
    ELSE Raise("ValueError")

----------------------------------------------------------------------------
\* urllib.parse

SchemeChars == Lower \cup Upper \cup Digits \cup {"+", "-", "."}

ToLower(c) ==
    CASE c = "A" -> "a" [] c = "B" -> "b" [] c = "C" -> "c" [] c = "D" -> "d"
      [] c = "E" -> "e" [] c = "F" -> "f" [] c = "G" -> "g" [] c = "H" -> "h"
      [] c = "I" -> "i" [] c = "J" -> "j" [] c = "K" -> "k" [] c = "L" -> "l"
      [] c = "M" -> "m" [] c = "N" -> "n" [] c = "O" -> "o" [] c = "P" -> "p"
      [] c = "Q" -> "q" [] c = "R" -> "r" [] c = "S" -> "s" [] c = "T" -> "t"
      [] c = "U" -> "u" [] c = "V" -> "v" [] c = "W" -> "w" [] c = "X" -> "x"
      [] c = "Y" -> "y" [] c = "Z" -> "z" [] OTHER -> c

\* the first index of s holding one of the characters of cs, or Len(s) + 1
FirstOf(s, cs) ==
    LET hits == {i \in 1..Len(s) : s[i] \in cs}
    IN  IF hits = {} THEN Len(s) + 1
        ELSE CHOOSE i \in hits : \A j \in hits : i <= j

\* s cut at index i: what precedes s[i] and what follows it; all of s and
\* nothing when i = 0
CutAt(s, i) == IF i = 0 THEN <<s, <<>>>> ELSE <<Upto(s, i - 1), From(s, i + 1)>>

\* urllib's uses_netloc and uses_params, cut to the schemes they share that a
\* URL of this model can carry
uses_netloc ==
    {<<>>, <<"h", "t", "t", "p">>, <<"h", "t", "t", "p", "s">>, <<"f", "t", "p">>}
uses_params ==
    {<<>>, <<"h", "t", "t", "p">>, <<"h", "t", "t", "p", "s">>, <<"f", "t", "p">>}

\* urlparse, last step: the six components as a ParseResult
parse_result(scheme, netloc, path_params, query, fragment) ==
    [scheme |-> scheme, netloc |-> netloc, path |-> path_params[1],
     params |-> path_params[2], query |-> query, fragment |-> fragment]

\* where the params start: the first ";" of the last path segment, for a
\* scheme that uses params
params_at(scheme, path) ==
    IF scheme \notin uses_params THEN 0
    ELSE IF RFind(path, "/") > 0 THEN FindStr(path, <<";">>, RFind(path, "/"))
    ELSE Find(path, ";")

\* urlparse, after the netloc: the fragment is cut at the first "#", then the
\* query at the first "?", then the params
split_query(scheme, netloc, path_query, fragment) ==
    parse_result(scheme, netloc,
                 CutAt(path_query[1], params_at(scheme, path_query[1])),
                 path_query[2], fragment)

split_fragment(scheme, netloc, rest_fragment) ==
    split_query(scheme, netloc,
                CutAt(rest_fragment[1], Find(rest_fragment[1], "?")),
                rest_fragment[2])

split_rest(scheme, netloc, rest) ==
    split_fragment(scheme, netloc, CutAt(rest, Find(rest, "#")))

\* urlparse, after "//": the netloc runs to the first of "/", "?" and "#"
split_netloc(scheme, after, cut) ==
    split_rest(scheme, Upto(after, cut - 1), From(after, cut))

\* urlparse, after the scheme
split_url(scheme, rest) ==
    IF StartsWith(rest, <<"/", "/">>)
    THEN split_netloc(scheme, From(rest, 3),
                      FirstOf(From(rest, 3), {"/", "?", "#"}))
    ELSE split_rest(scheme, <<>>, rest)

\* urlparse(url): scheme, netloc, path, params, query, fragment.  The scheme
\* is split off (and lowercased) at the first ":" when what precedes it is a
\* scheme name.  (Python first strips control characters and spaces from the
\* ends and rejects a bracketed netloc; no URL of this model has either.)
split_scheme(url, colon) ==
    IF /\ colon > 1
       /\ url[1] \in Lower \cup Upper
       /\ \A i \in 1..(colon - 1) : url[i] \in SchemeChars
    THEN split_url([i \in 1..(colon - 1) |-> ToLower(url[i])],
                   From(url, colon + 1))
    ELSE split_url(<<>>, url)

urlparse(url) == split_scheme(url, Find(url, ":"))

\* urlunparse, step by step: an empty params, query or fragment leaves no
\* separator behind
with_part(url, sep, part) ==
    IF part # <<>> THEN url \o <<sep>> \o part ELSE url

with_netloc(scheme, netloc, url) ==
    IF netloc # <<>>
       \/ (/\ scheme # <<>>
           /\ scheme \in uses_netloc
           /\ ~StartsWith(url, <<"/", "/">>))
    THEN <<"/", "/">> \o netloc
         \o (IF url # <<>> /\ url[1] # "/" THEN <<"/">> ELSE <<>>) \o url
    ELSE url

with_scheme(scheme, url) ==
    IF scheme # <<>> THEN scheme \o <<":">> \o url ELSE url

\* ParseResult.geturl()
geturl(uc) ==
    with_part(
        with_part(
            with_scheme(uc.scheme,
                        with_netloc(uc.scheme, uc.netloc,
                                    with_part(uc.path, ";", uc.params))),
            "?", uc.query),
        "#", uc.fragment)

\* the first non-blank value given for key among the name=value pairs
first_value(pairs, key) ==
    LET value(p) == CutAt(p, Find(p, "="))[2]
        name(p) == CutAt(p, Find(p, "="))[1]
        hits == {i \in 1..Len(pairs) :
                    name(pairs[i]) = key /\ value(pairs[i]) # <<>>}
    IN  IF hits = {} THEN Raise("KeyError")
        ELSE Ok(value(pairs[CHOOSE i \in hits : \A j \in hits : i <= j]))

\* parse_qs(query)[key][0]: the "&"-separated pairs, blank values dropped;
\* KeyError when no pair gives key a value.  (No query of this model holds a
\* "%" or "+" escape.)
qs_first(query, key) ==
    IF query = <<>> THEN Raise("KeyError")
    ELSE first_value(Split(query, "&"), key)

----------------------------------------------------------------------------
\* main.py:24-46

IdChars == Lower \cup Upper \cup Digits \cup {"_", "-"}

\* the longest run of [a-zA-Z0-9_-] at the start of s: what the group
\* ([a-zA-Z0-9_-]+) captures there (empty: the group does not match)
IdPrefix(s) ==
    LET stop == {i \in 1..Len(s) : s[i] \notin IdChars}
        n == IF stop = {} THEN Len(s)
             ELSE (CHOOSE i \in stop : \A j \in stop : i <= j) - 1
    IN  Upto(s, n)

S_watch == <<"/", "w", "a", "t", "c", "h">>
S_live == <<"/", "l", "i", "v", "e", "/">>

\* re.match("^/live/([a-zA-Z0-9_-]+)", path): the group, or <<>> for no match
livestream_match(path) ==
    IF StartsWith(path, S_live) THEN IdPrefix(From(path, Len(S_live) + 1))
    ELSE <<>>

\* re.match("^/([a-zA-Z0-9_-]+)", path): the group, or <<>> for no match
shortened_match(path) ==
    IF StartsWith(path, <<"/">>) THEN IdPrefix(From(path, 2)) ELSE <<>>

\* extract_video_id(url_components): Ok(Str(id)), Ok(None), or the KeyError
\* of query_params["v"] when the path is /watch and the query gives no v
extract_video_id(uc) ==
    IF uc.path = S_watch
    THEN LET v == qs_first(uc.query, <<"v">>)
         IN  IF v.ok THEN Ok(Str(v.val)) ELSE v
    ELSE IF livestream_match(uc.path) # <<>>
         THEN Ok(Str(livestream_match(uc.path)))
    ELSE IF shortened_match(uc.path) # <<>>
         THEN Ok(Str(shortened_match(uc.path)))
    ELSE Ok(None)

----------------------------------------------------------------------------
\* main.py:48-73

\* a, b = s.split(c): exactly one c in s, else the unpacking's ValueError
split_pair(s, c) ==
    IF Count(s, c) = 1 THEN Ok(CutAt(s, Find(s, c))) ELSE Raise("ValueError")

\* a faulty variant of line 71: an hour counted as sixty seconds
total_seconds_short_hour(hours, minutes, seconds) ==
    hours * 60 + minutes * 60 + seconds

\* line 71
total_seconds(hours, minutes, seconds) ==
    hours * 3600 + minutes * 60 + seconds

\* lines 67-73, given the hours and minutes found and the text left
seconds_parsed(hours, minutes, seconds) ==
    IF seconds.ok THEN Ok(total_seconds(hours, minutes, seconds.val))
    ELSE seconds

seconds_part(hours, minutes, rest) ==
    IF Contains(rest, "S")
    THEN seconds_parsed(hours, minutes, int(Remove(rest, "S")))
    ELSE seconds_parsed(hours, minutes, Ok(0))

\* lines 63-65, given the hours found and the text left
minutes_parsed(hours, minutes, rest) ==
    IF minutes.ok THEN seconds_part(hours, minutes.val, rest) ELSE minutes

minutes_split(hours, pair) ==
    IF pair.ok THEN minutes_parsed(hours, int(pair.val[1]), pair.val[2])
    ELSE pair

minutes_part(hours, rest) ==
    IF Contains(rest, "M") THEN minutes_split(hours, split_pair(rest, "M"))
    ELSE seconds_part(hours, 0, rest)

\* lines 59-61
hours_parsed(hours, rest) ==
    IF hours.ok THEN minutes_part(hours.val, rest) ELSE hours

hours_split(pair) ==
    IF pair.ok THEN hours_parsed(int(pair.val[1]), pair.val[2]) ELSE pair

hours_part(rest) ==
    IF Contains(rest, "H") THEN hours_split(split_pair(rest, "H"))
    ELSE minutes_part(0, rest)

\* convert_iso8601_duration_to_seconds(iso8601_duration): Ok(the seconds),
\* or the ValueError of an unpacking or of int()
convert_iso8601_duration_to_seconds(iso8601_duration) ==
    IF StartsWith(iso8601_duration, <<"P", "T">>)
    THEN hours_part(From(iso8601_duration, 3))
    ELSE hours_part(iso8601_duration)

----------------------------------------------------------------------------
\* datetime: the two conversions of lines 101 and 166-172

IsLeap(y) == (y % 4 = 0 /\ y % 100 # 0) \/ y % 400 = 0

DaysInMonth(y, m) ==
    IF m = 2 THEN (IF IsLeap(y) THEN 29 ELSE 28)
    ELSE IF m \in {4, 6, 9, 11} THEN 30 ELSE 31

\* days from 1970-01-01 to the proleptic Gregorian date y-m-d (y >= 1)
DaysFromCivil(y, m, d) ==
    LET yy == IF m <= 2 THEN y - 1 ELSE y
        era == yy \div 400
        yoe == yy - era * 400
        mp == IF m > 2 THEN m - 3 ELSE m + 9
        doy == (153 * mp + 2) \div 5 + d - 1
        doe == yoe * 365 + yoe \div 4 - yoe \div 100 + doy
    IN  era * 146097 + doe - 719468

\* %m at the start of s: the length matched by 1[0-2] | 0[1-9] (2), and by
\* the later alternative [1-9] (1); 0 where the alternative does not match
Month2(s) ==
    IF Len(s) >= 2
       /\ \/ (s[1] = "1" /\ s[2] \in {"0", "1", "2"})
          \/ (s[1] = "0" /\ s[2] \in Digits \ {"0"})
    THEN 2 ELSE 0
Month1(s) == IF Len(s) >= 1 /\ s[1] \in Digits \ {"0"} THEN 1 ELSE 0

\* %d at the start of s: 3[01] | [12]\d | 0[1-9] (2), then [1-9] (1)
Day2(s) ==
    IF Len(s) >= 2
       /\ \/ (s[1] = "3" /\ s[2] \in {"0", "1"})
          \/ (s[1] \in {"1", "2"} /\ s[2] \in Digits)
          \/ (s[1] = "0" /\ s[2] \in Digits \ {"0"})
    THEN 2 ELSE 0
Day1(s) == IF Len(s) >= 1 /\ s[1] \in Digits \ {"0"} THEN 1 ELSE 0

\* the lengths (month, day) of the first way %m%d matches the start of r,
\* the regular expression's alternatives tried in order; <<0, 0>> for none
first_match(r) ==
    IF Month2(r) > 0 /\ Day2(From(r, 3)) > 0 THEN <<2, 2>>
    ELSE IF Month2(r) > 0 /\ Day1(From(r, 3)) > 0 THEN <<2, 1>>
    ELSE IF Month1(r) > 0 /\ Day2(From(r, 2)) > 0 THEN <<1, 2>>
    ELSE IF Month1(r) > 0 /\ Day1(From(r, 2)) > 0 THEN <<1, 1>>
    ELSE <<0, 0>>

\* the epoch seconds of the UTC midnight of y-m-d, or ValueError when the
\* date does not exist
midnight(y, m, d) ==
    IF y < 1 \/ d > DaysInMonth(y, m) THEN Raise("ValueError")
    ELSE Ok(DaysFromCivil(y, m, d) * 86400)

matched(s, r, lens) ==
    IF lens[1] = 0 \/ 4 + lens[1] + lens[2] # Len(s) THEN Raise("ValueError")
    ELSE midnight(DigitsVal(Upto(s, 4)), DigitsVal(Upto(r, lens[1])),
                  DigitsVal(SubSeq(r, lens[1] + 1, lens[1] + lens[2])))

\* pytz.utc.localize(datetime.strptime(x, "%Y%m%d")).timestamp(), for x a
\* Python value: TypeError for None; ValueError when the text does not match
\* \d{4} %m %d, when text remains after the match, or when the date does not
\* exist; else the epoch seconds of that day's UTC midnight.  (The
\* alternative of %d that starts with a space is left out: no date of this
\* model holds one.)
strptime_timestamp(x) ==
    IF x = None THEN Raise("TypeError")
    ELSE IF Len(x.v) < 4 \/ \E i \in 1..4 : x.v[i] \notin Digits
    THEN Raise("ValueError")
    ELSE matched(x.v, From(x.v, 5), first_match(From(x.v, 5)))

\* the epoch seconds of a UTC date and time, or ValueError for a field out
\* of range
utc_seconds(y, mo, d, h, mi, sec) ==
    IF y < 1 \/ mo < 1 \/ mo > 12 \/ d < 1 \/ d > DaysInMonth(y, mo)
       \/ h > 23 \/ mi > 59 \/ sec > 59
    THEN Raise("ValueError")
    ELSE Ok(DaysFromCivil(y, mo, d) * 86400 + h * 3600 + mi * 60 + sec)

\* int(datetime.fromisoformat(s).timestamp()) for the shape the video API
\* sends, YYYY-MM-DDTHH:MM:SSZ.  Any other shape is a ValueError here
\* (Python 3.11 reads a few more shapes; no publishedAt of this model has
\* one).
fromisoformat_timestamp(s) ==
    IF /\ Len(s) = 20
       /\ \A i \in {1, 2, 3, 4, 6, 7, 9, 10, 12, 13, 15, 16, 18, 19} :
             s[i] \in Digits
       /\ s[5] = "-" /\ s[8] = "-" /\ s[11] = "T"
       /\ s[14] = ":" /\ s[17] = ":" /\ s[20] = "Z"
    THEN utc_seconds(DigitsVal(SubSeq(s, 1, 4)), DigitsVal(SubSeq(s, 6, 7)),
                     DigitsVal(SubSeq(s, 9, 10)),
                     DigitsVal(SubSeq(s, 12, 13)),
                     DigitsVal(SubSeq(s, 15, 16)),
                     DigitsVal(SubSeq(s, 18, 19)))
    ELSE Raise("ValueError")

----------------------------------------------------------------------------
\* main.py:228-231

\* hash_str(string): the first five hex digits of the SHA-256 of the text,
\* tabulated for the titles the upstream of this model returns;
\* AttributeError for None (None has no encode)
hash_str(string) ==
    IF string = None THEN Raise("AttributeError")
    ELSE Ok(CASE string.v = <<"hello">> -> "2cf24"
              [] string.v = <<"other">> -> "d9298"
              [] string.v = <<"dance">> -> "2c371"
              [] string.v = <<"clip">> -> "67905")

\* what an f-string writes for a value: the text, or None
Format(x) == IF x = None THEN <<"None">> ELSE x.v

----------------------------------------------------------------------------
\* main.py:108-121 and 234: the domain lists

D_dailymotion == <<"d", "a", "i", "l", "y", "m", "o", "t", "i", "o", "n", ".", "c", "o", "m">>
D_ponytube == <<"p", "o", "n", "y", ".", "t", "u", "b", "e">>
D_vimeo == <<"v", "i", "m", "e", "o", ".", "c", "o", "m">>
D_bilibili == <<"b", "i", "l", "i", "b", "i", "l", "i", ".", "c", "o", "m">>
D_thishorsie == <<"t", "h", "i", "s", "h", "o", "r", "s", "i", "e", ".", "r", "o", "c", "k", "s">>
D_tiktok == <<"t", "i", "k", "t", "o", "k", ".", "c", "o", "m">>
D_twitter == <<"t", "w", "i", "t", "t", "e", "r", ".", "c", "o", "m">>
D_x == <<"x", ".", "c", "o", "m">>
D_odysee == <<"o", "d", "y", "s", "e", "e", ".", "c", "o", "m">>
D_newgrounds == <<"n", "e", "w", "g", "r", "o", "u", "n", "d", "s", ".", "c", "o", "m">>
D_youtube == <<"y", "o", "u", "t", "u", "b", "e", ".", "c", "o", "m">>
D_youtu_be == <<"y", "o", "u", "t", "u", ".", "b", "e">>

\* the list of lines 108-119, read as the set "netloc not in" tests
accepted_domains ==
    {D_dailymotion, D_ponytube, D_vimeo, D_bilibili, D_thishorsie, D_tiktok,
     D_twitter, D_x, D_odysee, D_newgrounds}

\* the list of line 234
youtube_domains ==
    {<<"m", ".">> \o D_youtube, <<"w", "w", "w", ".">> \o D_youtube,
     D_youtube, D_youtu_be}

----------------------------------------------------------------------------
\* main.py:183-223

\* one entry of the dict preprocess returns: response key -> correction,
\* the correction being None, the name of another response key, a function
\* of the response (named here), or, under "url", the rewritten URL
Nullify(key) == [key |-> key, kind |-> "None", arg |-> <<>>]
RemapFrom(key, other) == [key |-> key, kind |-> "key", arg |-> <<other>>]
Recompute(key, fn) == [key |-> key, kind |-> "fn", arg |-> <<fn>>]
NewUrl(url) == [key |-> "url", kind |-> "url", arg |-> url]

S_twitter_url == <<"h", "t", "t", "p", "s", ":", "/", "/", "t", "w", "i", "t", "t", "e", "r", ".", "c", "o", "m">>
S_video == <<"/", "v", "i", "d", "e", "o">>

\* line 207: int(...) != 1
index_not_one(index) == IF index.ok THEN Ok(index.val # 1) ELSE index

\* lines 204-209: whether the twitter case adds duration -> None.  The test
\* is made on the whole URL, geturl(), query included: what precedes its
\* last "/" must end with /video, and what follows is handed to int().
\* (A URL with a netloc always holds a "/", so rfind never misses.)
multi_video_not_first(url) ==
    IF EndsWith(Upto(url, RFind(url, "/") - 1), S_video)
    THEN index_not_one(int(From(url, RFind(url, "/") + 1)))
    ELSE Ok(FALSE)

\* lines 195-209: the twitter case
twitter_changes(nullify) ==
    IF ~nullify.ok THEN nullify
    ELSE IF nullify.val
    THEN Ok(<<RemapFrom("channel", "uploader_id"),
              Recompute("title", "x_post"), Nullify("duration")>>)
    ELSE Ok(<<RemapFrom("channel", "uploader_id"),
              Recompute("title", "x_post")>>)

\* lines 190-193: the x case, given what preprocess makes of the new URL
x_changes(changes, new_url) ==
    IF changes.ok THEN Ok(Append(changes.val, NewUrl(new_url))) ELSE changes

\* lines 184-185: site[0] if len(site) == 2 else site[1]
site_of(labels) ==
    IF Len(labels) = 2 THEN Ok(labels[1])
    ELSE IF Len(labels) > 2 THEN Ok(labels[2])
    ELSE Raise("IndexError")

\* preprocess(url_components): Ok(the corrections, in insertion order), or
\* the exception raised on the way
RECURSIVE preprocess(_)

\* lines 189-221: the match statement
match_site(uc, site) ==
    IF ~site.ok THEN site
    ELSE IF site.val = <<"x">>
    THEN x_changes(preprocess(urlparse(S_twitter_url \o uc.path)),
                   S_twitter_url \o uc.path)
    ELSE IF site.val = <<"t", "w", "i", "t", "t", "e", "r">>
    THEN twitter_changes(multi_video_not_first(geturl(uc)))
    ELSE IF site.val = <<"n", "e", "w", "g", "r", "o", "u", "n", "d", "s">>
    THEN Ok(<<RemapFrom("channel", "uploader")>>)
    ELSE IF site.val = <<"t", "i", "k", "t", "o", "k">>
    THEN Ok(<<RemapFrom("channel", "uploader"),
              Recompute("title", "tiktok_video")>>)
    ELSE IF site.val = <<"b", "i", "l", "i", "b", "i", "l", "i">>
    THEN Ok(<<RemapFrom("channel", "uploader")>>)
    ELSE Ok(<<>>)

preprocess(uc) == match_site(uc, site_of(Split(uc.netloc, ".")))

\* the lambdas of lines 197-199 and 216-218, given the title's hash
titled(lead, who, h) ==
    IF h.ok THEN Ok(Str(<<lead>> \o Format(who) \o <<" (", h.val, ")">>))
    ELSE h

title_fn(fn, vid_data) ==
    IF fn = "x_post"
    THEN titled("X post by ", Get(vid_data, "uploader_id"),
                hash_str(Get(vid_data, "title")))
    ELSE titled("Tiktok video by ", Get(vid_data, "uploader"),
                hash_str(Get(vid_data, "title")))

\* d[key] = value
Put(d, key, value) ==
    [k \in DOMAIN d \cup {key} |-> IF k = key THEN value ELSE d[k]]

\* lines 159-164: one correction applied to the response
apply_change(resp, c) ==
    IF c.kind = "None" THEN Ok(Put(resp, c.key, None))
    ELSE IF c.kind = "key" THEN Ok(Put(resp, c.key, Get(resp, c.arg[1])))
    ELSE IF c.kind = "url" THEN Ok(Put(resp, c.key, None))
    ELSE IF title_fn(c.arg[1], resp).ok
    THEN Ok(Put(resp, c.key, title_fn(c.arg[1], resp).val))
    ELSE title_fn(c.arg[1], resp)

\* lines 157-164: the corrections applied to the response, in order
RECURSIVE apply_changes(_, _)
apply_changes(resp, changes) ==
    IF changes = <<>> \/ ~resp.ok THEN resp
    ELSE apply_changes(apply_change(resp.val, Head(changes)), Tail(changes))

----------------------------------------------------------------------------
\* The upstream providers, as a fixed (deterministic) table: what the video
\* API answers for a video id, and what the extraction library answers for
\* a URL.  A response is a dict: a function from the keys present to values.

T_published == <<"2", "0", "2", "4", "-", "0", "1", "-", "0", "2", "T", "0", "3", ":", "0", "4", ":", "0", "5", "Z">>
T_upload == <<"2", "0", "2", "4", "0", "1", "0", "2">>
T_upload_two == <<"2", "0", "2", "3", "1", "2", "3", "1">>

\* yt.videos().list(part=..., id=video_id).execute()["items"], lines 86-96:
\* the one item (its snippet and contentDetails flattened), or None for an
\* empty list.  Video "day" lasts over a day: the API writes P1DT2H.
videos_list(video_id) ==
    CASE video_id = <<"a", "b", "c">> ->
            [title |-> Str(<<"First video">>),
             channelTitle |-> Str(<<"Chan">>),
             publishedAt |-> Str(T_published),
             duration |-> Str(<<"P", "T", "1", "M", "5", "S">>)]
      [] video_id = <<"d", "a", "y">> ->
            [title |-> Str(<<"Marathon">>),
             channelTitle |-> Str(<<"Chan">>),
             publishedAt |-> Str(T_published),
             duration |-> Str(<<"P", "1", "D", "T", "2", "H">>)]
      [] OTHER -> None

Https == <<"h", "t", "t", "p", "s", ":", "/", "/">>
Www == <<"w", "w", "w", ".">>
P_status_7 == <<"/", "u", "/", "s", "t", "a", "t", "u", "s", "/", "7">>
P_video_1 == <<"/", "v", "i", "d", "e", "o", "/", "1">>
P_video_2 == <<"/", "v", "i", "d", "e", "o", "/", "2">>
Q_s_20 == <<"?", "s", "=", "2", "0">>

\* "https://www.youtube.com/watch?v=abc"
U_watch == Https \o Www \o D_youtube \o S_watch \o <<"?", "v", "=", "a", "b", "c">>
\* "https://www.youtube.com/watch"
U_watch_no_v == Https \o Www \o D_youtube \o S_watch
\* "https://youtu.be/"
U_short_empty == Https \o D_youtu_be \o <<"/">>
\* "https://youtu.be"
U_short_bare == Https \o D_youtu_be
\* "https://youtu.be/zzz"
U_short_gone == Https \o D_youtu_be \o <<"/", "z", "z", "z">>
\* "https://youtu.be/abc"
U_short == Https \o D_youtu_be \o <<"/", "a", "b", "c">>
\* "https://www.youtube.com/live/day"
U_live_day == Https \o Www \o D_youtube \o S_live \o <<"d", "a", "y">>
\* "https://vimeo.com/123"
U_vimeo == Https \o D_vimeo \o <<"/", "1", "2", "3">>
\* "https://www.bilibili.com/video/BV1"
U_bilibili == Https \o Www \o D_bilibili \o <<"/", "v", "i", "d", "e", "o", "/", "B", "V", "1">>
\* "https://www.newgrounds.com/portal/view/5"
U_newgrounds == Https \o Www \o D_newgrounds \o <<"/", "p", "o", "r", "t", "a", "l", "/", "v", "i", "e", "w", "/", "5">>
\* "https://www.tiktok.com/@k/video/9"
U_tiktok == Https \o Www \o D_tiktok \o <<"/", "@", "k", "/", "v", "i", "d", "e", "o", "/", "9">>
\* "https://pony.tube/w/redir"
U_ponytube == Https \o D_ponytube \o <<"/", "w", "/", "r", "e", "d", "i", "r">>
\* "https://twitter.com/u/status/7"
U_tw_post == Https \o D_twitter \o P_status_7
\* "https://twitter.com/u/status/7/video/1"
U_tw_v1 == U_tw_post \o P_video_1
\* "https://twitter.com/u/status/7/video/2"
U_tw_v2 == U_tw_post \o P_video_2
\* "https://twitter.com/u/status/7/video/2/"
U_tw_v2_slash == U_tw_v2 \o <<"/">>
\* "https://twitter.com/u/status/7/video/2?s=20"
U_tw_v2_query == U_tw_v2 \o Q_s_20
\* "https://twitter.com/a/status/2"
U_tw_two == Https \o D_twitter \o <<"/", "a", "/", "s", "t", "a", "t", "u", "s", "/", "2">>
\* "https://x.com/u/status/7"
U_x_post == Https \o D_x \o P_status_7
\* "https://x.com/u/status/7/video/2?s=20"
U_x_v2_query == U_x_post \o P_video_2 \o Q_s_20
\* "https://example.org/video/1"
U_example == Https \o <<"e", "x", "a", "m", "p", "l", "e", ".", "o", "r", "g">> \o P_video_1
\* "https://www.example.org/video/1"
U_www_example == Https \o Www \o <<"e", "x", "a", "m", "p", "l", "e", ".", "o", "r", "g">> \o P_video_1
\* "https://a.b.x.com/u/status/7"
U_deep_x == Https \o <<"a", ".", "b", ".">> \o D_x \o P_status_7
\* "https://music.youtube.com/watch?v=abc"
U_music == Https \o <<"m", "u", "s", "i", "c", ".">> \o D_youtube \o S_watch \o <<"?", "v", "=", "a", "b", "c">>
\* "vimeo.com/123"
U_no_scheme == D_vimeo \o <<"/", "1", "2", "3">>

\* one video of the two-video post twitter.com/u/status/7.  The library
\* reports the first video's duration whichever index is asked for (the
\* comment of lines 201-203), and the post's id as display_id.
tweet_video ==
    [title |-> Str(<<"hello">>), uploader |-> Str(<<"Abc">>),
     uploader_id |-> Str(<<"abc">>), upload_date |-> Str(T_upload),
     duration |-> PyInt(30), webpage_url_domain |-> Str(D_twitter),
     display_id |-> Str(<<"7">>)]

\* ydl.extract_info(url, download=False), line 146: Ok(the response) or
\* DownloadError.  The tiktok response carries no upload_date; the pony.tube
\* page resolves to a video hosted on another site.
extract_info(url) ==
    CASE url = U_vimeo ->
            Ok([title |-> Str(<<"clip">>), channel |-> Str(<<"Studio">>),
                upload_date |-> Str(T_upload), duration |-> PyInt(60),
                webpage_url_domain |-> Str(D_vimeo),
                display_id |-> Str(<<"1", "2", "3">>)])
      [] url = U_bilibili ->
            Ok([title |-> Str(<<"clip">>), uploader |-> Str(<<"Bili">>),
                upload_date |-> Str(T_upload), duration |-> PyInt(90),
                webpage_url_domain |-> Str(D_bilibili),
                display_id |-> Str(<<"B", "V", "1">>)])
      [] url \in {U_tw_v1, U_tw_v2, U_tw_v2_slash, U_tw_v2_query} ->
            Ok(tweet_video)
      [] url = U_tw_post ->
            Ok([entries |-> <<tweet_video, tweet_video>>,
                webpage_url_domain |-> Str(D_twitter),
                display_id |-> Str(<<"7">>)])
      [] url = U_tw_two ->
            Ok([title |-> Str(<<"other">>), uploader |-> Str(<<"Zed">>),
                uploader_id |-> Str(<<"zed">>),
                upload_date |-> Str(T_upload_two), duration |-> PyInt(5),
                webpage_url_domain |-> Str(D_twitter),
                display_id |-> Str(<<"2">>)])
      [] url = U_tiktok ->
            Ok([title |-> Str(<<"dance">>), uploader |-> Str(<<"kyu">>),
                duration |-> PyInt(15),
                webpage_url_domain |-> Str(D_tiktok),
                display_id |-> Str(<<"9">>)])
      [] url = U_ponytube ->
            Ok([title |-> Str(<<"clip">>), channel |-> Str(<<"Pony">>),
                upload_date |-> Str(T_upload), duration |-> PyInt(45),
                webpage_url_domain |-> Str(D_youtube),
                display_id |-> Str(<<"q", "1">>)])
      [] OTHER -> Raise("DownloadError")

----------------------------------------------------------------------------
\* The adapters.  An adapter runs in two halves, with the blocking call to
\* the upstream between them (line 89, line 146): while a request waits
\* there, the other worker threads run.  The first half ends either with the
\* call over (Done) or at the upstream call (Await); the second half takes
\* the upstream's answer and ends the call (Done).  Done holds out (Ok(the
\* value returned) or the exception raised), the two caches as the half left
\* them, and, for the properties, the upstream requests made (calls),
\* whether the answer came from the cache (hit), the cache key stored under
\* (stored) and the corrections applied (changes).

Invalid(reason) == [Invalid |-> reason]

Done(out, yt, dl, calls, hit, stored, changes) ==
    [await |-> FALSE, out |-> out, yt |-> yt, dl |-> dl, calls |-> calls,
     hit |-> hit, stored |-> stored, changes |-> changes]

\* line 89: request.execute() is entered for this video id
AwaitYoutube(id) == [await |-> TRUE, family |-> "youtube", id |-> id]

\* line 146: ydl.extract_info is entered for this URL, these corrections
\* to be applied to its answer
AwaitYtdlp(use) == [await |-> TRUE, family |-> "ytdlp", use |-> use]

\* lines 98-103, given what the two conversions made
youtube_record(item, upload_date, duration) ==
    IF ~upload_date.ok THEN upload_date
    ELSE IF ~duration.ok THEN duration
    ELSE Ok([title |-> item.title, uploader |-> item.channelTitle,
             upload_date |-> PyInt(upload_date.val),
             duration |-> PyInt(duration.val)])

\* lines 98-103: the record built from the API's item, or the ValueError of
\* one of its two conversions
youtube_video_data(item) ==
    youtube_record(item, fromisoformat_timestamp(item.publishedAt.v),
                   convert_iso8601_duration_to_seconds(item.duration.v))

\* lines 105-106
youtube_store(id, video_data, yt, dl) ==
    IF ~video_data.ok
    THEN Done(video_data, yt, dl, <<id>>, FALSE, <<>>, <<>>)
    ELSE Done(video_data, Put(yt, id, video_data.val), dl, <<id>>, FALSE,
              <<[family |-> "youtube", domain |-> <<>>, id |-> id]>>, <<>>)

\* lines 91-103, given the API's answer (None for an empty items list)
youtube_response(id, item, yt, dl) ==
    IF item = None
    THEN Done(Ok(Invalid("Url doesn't point to a video")), yt, dl,
              <<id>>, FALSE, <<>>, <<>>)
    ELSE youtube_store(id, youtube_video_data(item), yt, dl)

\* lines 78-88, given what extract_video_id made of the URL
youtube_lookup(video_id, yt, dl) ==
    IF ~video_id.ok
    THEN Done(video_id, yt, dl, <<>>, FALSE, <<>>, <<>>)
    ELSE IF video_id.val = None \/ video_id.val.v = <<>>
    THEN Done(Ok(Invalid("No video id present")), yt, dl,
              <<>>, FALSE, <<>>, <<>>)
    ELSE IF video_id.val.v \in DOMAIN yt
    THEN Done(Ok(yt[video_id.val.v]), yt, dl, <<>>, TRUE, <<>>, <<>>)
    ELSE AwaitYoutube(video_id.val.v)

\* fetch_youtube(url_components) up to the API call, lines 76-88
fetch_youtube(uc, yt, dl) == youtube_lookup(extract_video_id(uc), yt, dl)

\* fetch_youtube from the API's answer on, lines 89-106, with the caches
\* as they are by then
fetch_youtube_answered(call, yt, dl) ==
    youtube_response(call.id, videos_list(call.id), yt, dl)

\* a faulty variant of lines 126-127: every label before the last two is
\* dropped
strip_every_subdomain(netloc) ==
    IF Count(netloc, ".") > 1
    THEN From(netloc, RFind(Upto(netloc, RFind(netloc, ".") - 1), ".") + 1)
    ELSE netloc

\* lines 126-127: a netloc with more than one "." loses its first label
strip_subdomain(netloc) ==
    IF Find(netloc, ".") # RFind(netloc, ".")
    THEN From(netloc, Find(netloc, ".") + 1)
    ELSE netloc

\* parts[-1]
Last(parts) == parts[Len(parts)]

\* line 132: url_components.path.split("?")[0].rstrip("/").split("/")[-1]
last_segment(path) ==
    Last(Split(RStrip(Split(path, "?")[1], "/"), "/"))

\* line 142: the corrections without the one at i
popped(changes, i) ==
    SubSeq(changes, 1, i - 1) \o SubSeq(changes, i + 1, Len(changes))

\* lines 139-142, given the positions of the "url" entry (at most one)
use_url(url, changes, at) ==
    IF at # {} /\ \A i \in at : changes[i].arg # <<>>
    THEN [url |-> changes[CHOOSE i \in at : TRUE].arg,
          changes |-> popped(changes, CHOOSE i \in at : TRUE)]
    ELSE [url |-> url, changes |-> changes]

\* lines 139-142: the URL handed to the library and the corrections left
\* once a (non-empty) "url" entry is popped
url_and_changes(url, changes) ==
    use_url(url, changes, {i \in 1..Len(changes) : changes[i].key = "url"})

\* lines 166-176, given what strptime made of the upload date
ytdlp_record(response, upload_date, dl) ==
    IF ~upload_date.ok THEN upload_date
    ELSE IF "webpage_url_domain" \notin DOMAIN response
    THEN Raise("KeyError")
    ELSE IF response["webpage_url_domain"].v \notin DOMAIN dl
    THEN Raise("KeyError")
    ELSE IF "display_id" \notin DOMAIN response THEN Raise("KeyError")
    ELSE Ok([video_data |->
                [title |-> Get(response, "title"),
                 uploader |-> Get(response, "channel"),
                 upload_date |-> PyFloat(upload_date.val),
                 duration |-> Get(response, "duration")],
             domain |-> response["webpage_url_domain"].v,
             id |-> response["display_id"].v])

\* lines 166-176: the record built from the corrected response and the key
\* it is stored under, or the exception raised on the way
ytdlp_video_data(response, dl) ==
    ytdlp_record(response, strptime_timestamp(Get(response, "upload_date")),
                 dl)

\* lines 176-177
ytdlp_store(built, use, yt, dl) ==
    IF ~built.ok
    THEN Done(built, yt, dl, <<use.url>>, FALSE, <<>>, use.changes)
    ELSE Done(Ok(built.val.video_data), yt,
              Put(dl, built.val.domain,
                  Put(dl[built.val.domain], built.val.id,
                      built.val.video_data)),
              <<use.url>>, FALSE,
              <<[family |-> "ytdlp", domain |-> built.val.domain,
                 id |-> built.val.id]>>,
              use.changes)

\* lines 166-177, given the corrected response
ytdlp_corrected(corrected, use, yt, dl) ==
    IF ~corrected.ok
    THEN Done(corrected, yt, dl, <<use.url>>, FALSE, <<>>, use.changes)
    ELSE ytdlp_store(ytdlp_video_data(corrected.val, dl), use, yt, dl)

\* lines 150-151: response["entries"][0] of a playlist, else the response
first_entry(response) ==
    IF "entries" \notin DOMAIN response THEN Ok(response)
    ELSE IF response["entries"] = <<>> THEN Raise("IndexError")
    ELSE Ok(response["entries"][1])

\* lines 147-164, given the library's answer
ytdlp_extracted(extracted, use, yt, dl) ==
    IF ~extracted.ok
    THEN Done(Ok(Invalid("Url doesn't point to a video")), yt, dl,
              <<use.url>>, FALSE, <<>>, use.changes)
    ELSE ytdlp_corrected(apply_changes(first_entry(extracted.val),
                                       use.changes), use, yt, dl)

\* lines 139-142, given what preprocess made of the URL
ytdlp_preprocessed(preprocess_changes, url, yt, dl) ==
    IF ~preprocess_changes.ok
    THEN Done(preprocess_changes, yt, dl, <<>>, FALSE, <<>>, <<>>)
    ELSE AwaitYtdlp(url_and_changes(url, preprocess_changes.val))

\* lines 129-139, given the netloc without its subdomain and the cache key
ytdlp_lookup(uc, netloc, video_id, yt, dl) ==
    IF netloc \notin accepted_domains
    THEN Done(Ok(Invalid("Url not from an accepted domain")), yt, dl,
              <<>>, FALSE, <<>>, <<>>)
    ELSE IF video_id \in DOMAIN dl[netloc]
    THEN Done(Ok(dl[netloc][video_id]), yt, dl, <<>>, TRUE, <<>>, <<>>)
    ELSE ytdlp_preprocessed(preprocess(uc), geturl(uc), yt, dl)

\* fetch_ytdlp(url_components) up to the library call, lines 124-144
fetch_ytdlp(uc, yt, dl) ==
    ytdlp_lookup(uc, strip_subdomain(uc.netloc), last_segment(uc.path),
                 yt, dl)

\* fetch_ytdlp from the library's answer on, lines 146-177, with the caches
\* as they are by then
fetch_ytdlp_answered(call, yt, dl) ==
    ytdlp_extracted(extract_info(call.use.url), call.use, yt, dl)

\* line 241: the adapter chosen for one parsed URL, up to its upstream call
dispatch(uc, yt, dl) ==
    IF uc.netloc \in youtube_domains THEN fetch_youtube(uc, yt, dl)
    ELSE fetch_ytdlp(uc, yt, dl)

\* the adapter's second half, once the upstream has answered
answered(call, yt, dl) ==
    IF call.family = "youtube" THEN fetch_youtube_answered(call, yt, dl)
    ELSE fetch_ytdlp_answered(call, yt, dl)

----------------------------------------------------------------------------
\* The service: POST /fetch requests, served by worker threads that share
\* the two caches

MaxBatch == 2
MaxRequests == 2
MaxUrls == 3
MaxWorkers == 2
MaxSegment == 45

\* every URL the requests of Spec draw from
AllUrls ==
    {U_watch, U_watch_no_v, U_short_bare, U_short_empty, U_short_gone,
     U_short, U_live_day, U_vimeo, U_bilibili, U_newgrounds, U_tiktok, U_ponytube,
     U_tw_v1, U_tw_v2, U_tw_v2_slash, U_tw_v2_query, U_tw_two,
     U_x_post, U_x_v2_query, U_example}

\* the URLs the requests of SpecDomain draw from: netlocs outside both
\* lists, and one accepted domain
DomainUrls ==
    {U_example, U_www_example, U_deep_x, U_music, U_no_scheme, U_vimeo}

Batches(universe) == UNION {[1..n -> universe] : n \in 0..MaxBatch}

Workers == 1..MaxWorkers

Pending == Raise("pending")

InitService ==
    /\ yt_cache = <<>>
    /\ ytdlp_cache = [domain \in accepted_domains |-> <<>>]
    /\ pc = [w \in Workers |-> "idle"]
    /\ urls = [w \in Workers |-> <<>>]
    /\ pending = [w \in Workers |-> <<>>]
    /\ log = [w \in Workers |-> <<>>]
    /\ returned = [w \in Workers |-> [status |-> "none"]]
    /\ fetched_ok = {}
    /\ nreq = 0
    /\ nurls = 0

Init ==
    /\ InitService
    /\ dur_in = [h |-> <<>>, m |-> <<>>, s |-> <<>>]
    /\ dur_out = Pending

\* A request reaches a free worker thread (a sync def endpoint runs in the
\* server's thread pool, one thread per request in flight).  An empty list
\* is answered at once.
Receive(w, universe) ==
    /\ pc[w] = "idle"
    /\ nreq < MaxRequests
    /\ \E batch \in Batches(universe) :
          /\ nurls + Len(batch) <= MaxUrls
          /\ urls' = [urls EXCEPT ![w] = batch]
          /\ nurls' = nurls + Len(batch)
          /\ pc' = [pc EXCEPT ![w] = IF batch = <<>> THEN "idle"
                                     ELSE "running"]
          /\ returned' = [returned EXCEPT
                ![w] = IF batch = <<>> THEN [status |-> "ok", body |-> <<>>]
                       ELSE [status |-> "pending"]]
    /\ log' = [log EXCEPT ![w] = <<>>]
    /\ nreq' = nreq + 1
    /\ UNCHANGED <<yt_cache, ytdlp_cache, pending, fetched_ok, dur_in,
                   dur_out>>

\* what the log holds of one adapter call: r is the half that ended it,
\* again whether the URL had been fetched and stored before the call began,
\* kept whether the call left both caches as they were
Entry(r, again) ==
    [out |-> r.out, calls |-> r.calls, hit |-> r.hit, stored |-> r.stored,
     changes |-> r.changes, again |-> again,
     kept |-> r.yt = yt_cache /\ r.dl = ytdlp_cache]

\* the list built so far by the comprehension of line 241
Body(entries) == [i \in 1..Len(entries) |-> entries[i].out.val]

\* line 241, once the adapter call for the worker's current URL has ended:
\* an exception ends the request, the last URL's result completes the list
\* that is returned, any other result leaves the next URL to handle
Handled(w, r, entries) ==
    /\ log' = [log EXCEPT ![w] = entries]
    /\ yt_cache' = r.yt
    /\ ytdlp_cache' = r.dl
    /\ fetched_ok' = IF r.out.ok /\ r.stored # <<>>
                     THEN fetched_ok \cup {urls[w][Len(entries)]}
                     ELSE fetched_ok
    /\ pending' = [pending EXCEPT ![w] = <<>>]
    /\ pc' = [pc EXCEPT ![w] = IF r.out.ok /\ Len(entries) < Len(urls[w])
                               THEN "running" ELSE "idle"]
    /\ returned' = [returned EXCEPT
          ![w] = IF ~r.out.ok
                 THEN [status |-> "raised", error |-> r.out.err]
                 ELSE IF Len(entries) < Len(urls[w]) THEN @
                 ELSE [status |-> "ok", body |-> Body(entries)]]

\* the worker is now inside the upstream call
Blocked(w, r, again) ==
    /\ pending' = [pending EXCEPT ![w] = [call |-> r, again |-> again]]
    /\ pc' = [pc EXCEPT ![w] = "waiting"]
    /\ UNCHANGED <<yt_cache, ytdlp_cache, log, returned, fetched_ok>>

Looked(w, url, r) ==
    IF r.await THEN Blocked(w, r, url \in fetched_ok)
    ELSE Handled(w, r, Append(log[w], Entry(r, url \in fetched_ok)))

\* The worker takes its next URL through the adapter's first half: the URL
\* is parsed (line 240), the adapter chosen, the cache looked up.
Lookup(w) ==
    /\ pc[w] = "running"
    /\ Looked(w, urls[w][Len(log[w]) + 1],
              dispatch(urlparse(urls[w][Len(log[w]) + 1]), yt_cache,
                       ytdlp_cache))
    /\ UNCHANGED <<urls, nreq, nurls, dur_in, dur_out>>

Answered(w, r) ==
    Handled(w, r, Append(log[w], Entry(r, pending[w].again)))

\* The upstream answers the worker's call: the adapter's second half runs,
\* against the caches as they are now.
Answer(w) ==
    /\ pc[w] = "waiting"
    /\ Answered(w, answered(pending[w].call, yt_cache, ytdlp_cache))
    /\ UNCHANGED <<urls, nreq, nurls, dur_in, dur_out>>

Next == \E w \in Workers : Receive(w, AllUrls) \/ Lookup(w) \/ Answer(w)

Spec == Init /\ [][Next]_vars

NextDomain ==
    \E w \in Workers : Receive(w, DomainUrls) \/ Lookup(w) \/ Answer(w)

SpecDomain == Init /\ [][NextDomain]_vars

----------------------------------------------------------------------------
\* The duration codec on its own: a token PT[<h>H][<m>M][<s>S] is drawn,
\* each segment absent (<<>>) or a number up to MaxSegment (<<n>>), written out as
\* text and converted.

Segments == {<<>>} \cup {<<n>> : n \in 0..MaxSegment}

DigitChar == [n \in 0..9 |-> CHOOSE c \in Digits : DigitVal(c) = n]

\* str(n) for n >= 0
RECURSIVE Decimal(_)
Decimal(n) ==
    IF n < 10 THEN <<DigitChar[n]>>
    ELSE Append(Decimal(n \div 10), DigitChar[n % 10])

Segment(x, unit) == IF x = <<>> THEN <<>> ELSE Append(Decimal(x[1]), unit)

Token(d) ==
    <<"P", "T">> \o Segment(d.h, "H") \o Segment(d.m, "M")
                 \o Segment(d.s, "S")

InitDur ==
    /\ InitService
    /\ dur_in \in [h : Segments, m : Segments, s : Segments]
    /\ dur_out = Pending

Convert ==
    /\ dur_out = Pending
    /\ dur_out' = convert_iso8601_duration_to_seconds(Token(dur_in))
    /\ UNCHANGED <<yt_cache, ytdlp_cache, pc, urls, pending, log, returned,
                   fetched_ok, nreq, nurls, dur_in>>

NextDur == Convert

SpecDur == InitDur /\ [][NextDur]_vars

----------------------------------------------------------------------------
\* The properties.  They read, per worker w, its last request (urls[w]),
\* what it returned (returned[w]), and its log: log[w][i] is what the
\* adapter did for urls[w][i].

\* the worker's request has ended
Served(w) == returned[w].status \in {"ok", "raised"}

\* the URLs handled so far, as <<worker, position>>
Slots == {wi \in Workers \X (1..MaxBatch) : wi[2] \in DOMAIN log[wi[1]]}

UrlAt(wi) == urls[wi[1]][wi[2]]
LogAt(wi) == log[wi[1]][wi[2]]

IsRecord(x) == DOMAIN x = {"title", "uploader", "upload_date", "duration"}
IsRejection(x) == DOMAIN x = {"Invalid"}

Netloc(url) == urlparse(url).netloc
Path(url) == urlparse(url).path
Query(url) == urlparse(url).query

\* C1: every request returns a list as long as its input, whose i-th element
\* is the result produced for the i-th URL.
C1_SameLengthSameOrder ==
    \A w \in Workers :
        Served(w) =>
            /\ returned[w].status = "ok"
            /\ Len(returned[w].body) = Len(urls[w])
            /\ \A i \in 1..Len(urls[w]) :
                  /\ i \in DOMAIN log[w]
                  /\ log[w][i].out = Ok(returned[w].body[i])

\* C2: a failure on one URL never aborts the others: every URL of the batch
\* has its slot in the returned list, holding a record or a rejection.
C2_PerItemIsolation ==
    \A w \in Workers :
        Served(w) =>
            \A i \in 1..Len(urls[w]) :
                /\ returned[w].status # "raised"
                /\ i \in DOMAIN returned[w].body
                /\ \/ IsRecord(returned[w].body[i])
                   \/ IsRejection(returned[w].body[i])

\* C3: once a request for a URL has succeeded and populated the cache, a
\* later request for the same URL is answered from the cache, with no call
\* to the upstream.
C3_RepeatServedFromCache ==
    \A wi \in Slots :
        LogAt(wi).again => LogAt(wi).hit /\ LogAt(wi).calls = <<>>

\* an x.com netloc, bare or with one subdomain label
IsXHost(netloc) ==
    \/ netloc = D_x
    \/ EndsWith(netloc, <<".">> \o D_x) /\ Count(netloc, ".") = 2

\* the native twitter.com URL with the path and query of url
NativeTwitter(url) ==
    S_twitter_url \o Path(url)
        \o (IF Query(url) = <<>> THEN <<>> ELSE <<"?">> \o Query(url))

ChangeSet(changes) == {changes[k] : k \in DOMAIN changes}

SameCorrections(changes, native) ==
    native.ok /\ ChangeSet(changes) = ChangeSet(native.val)

\* C4: for an x.com URL that is fetched, the URL handed to the library is
\* https://twitter.com + path, and the corrections applied are those
\* preprocess gives for the twitter.com URL with the same path and query.
C4_XSameAsTwitter ==
    \A wi \in Slots :
        IsXHost(Netloc(UrlAt(wi))) /\ LogAt(wi).calls # <<>> =>
            /\ LogAt(wi).calls = <<S_twitter_url \o Path(UrlAt(wi))>>
            /\ SameCorrections(LogAt(wi).changes,
                               preprocess(urlparse(NativeTwitter(UrlAt(wi)))))

\* what is left of a netloc once its first label is taken off
AfterFirstLabel(netloc) ==
    IF Contains(netloc, ".") THEN From(netloc, Find(netloc, ".") + 1)
    ELSE netloc

\* the domain is in neither list, as it stands or less one leading label
Unaccepted(url) ==
    /\ Netloc(url) \notin youtube_domains
    /\ Netloc(url) \notin accepted_domains
    /\ AfterFirstLabel(Netloc(url)) \notin accepted_domains

RejectedUntouched(wi, reason) ==
    /\ LogAt(wi).out = Ok([Invalid |-> reason])
    /\ LogAt(wi).calls = <<>>
    /\ LogAt(wi).kept

\* C5, as the code has it: a URL whose domain is in neither list is answered
\* with {"Invalid": "Url not from an accepted domain"}, with no exception,
\* no call to the library and both caches as they were.
C5_UnacceptedRejected ==
    \A wi \in Slots :
        Unaccepted(UrlAt(wi)) =>
            RejectedUntouched(wi, "Url not from an accepted domain")

\* C5, as stated: the rejection reads {"Invalid": "domain not accepted"}.
C5_AsStated ==
    \A wi \in Slots :
        Unaccepted(UrlAt(wi)) => RejectedUntouched(wi, "domain not accepted")

\* an unaccepted URL has been handled and its request served, with a
\* record in the cache
C5_Witness ==
    /\ \E wi \in Slots :
          /\ Unaccepted(UrlAt(wi))
          /\ UrlAt(wi) \in {U_example, U_deep_x}
          /\ Served(wi[1])
    /\ \E d \in DOMAIN ytdlp_cache : ytdlp_cache[d] # <<>>

\* the cases the claim lists of a YouTube URL that yields no id: /watch
\* with no v parameter, and an empty or "/" path
YieldsNoId(url) ==
    \/ Path(url) = S_watch /\ ~qs_first(Query(url), <<"v">>).ok
    \/ Path(url) \in {<<>>, <<"/">>}

\* C6: a YouTube-family URL that yields no id is answered with a rejection,
\* with no call to the video API and yt_cache as it was.
C6_NoIdRejected ==
    \A wi \in Slots :
        Netloc(UrlAt(wi)) \in youtube_domains /\ YieldsNoId(UrlAt(wi)) =>
            /\ LogAt(wi).out.ok
            /\ IsRejection(LogAt(wi).out.val)
            /\ LogAt(wi).calls = <<>>
            /\ LogAt(wi).kept

\* the path's segments, a trailing slash aside
PathSegments(url) == Split(RStrip(Path(url), "/"), "/")

\* the path ends with the segments video/{index}
IsMultiVideo(url) ==
    /\ Len(PathSegments(url)) >= 2
    /\ PathSegments(url)[Len(PathSegments(url)) - 1] = <<"v", "i", "d", "e", "o">>
    /\ AllDigits(Last(PathSegments(url)))

VideoIndex(url) == DigitsVal(Last(PathSegments(url)))

IsTwitterHost(netloc) ==
    \/ netloc = D_twitter
    \/ EndsWith(netloc, <<".">> \o D_twitter) /\ Count(netloc, ".") = 2

\* the URL the library is to be handed: the URL itself, or its twitter.com
\* equivalent for an x.com URL
ToFetch(url) ==
    IF IsXHost(Netloc(url)) THEN S_twitter_url \o Path(url) ELSE url

\* the duration the library reports for the URL it is handed
ProviderDuration(fetched) ==
    Get(first_entry(extract_info(fetched).val).val, "duration")

\* C7: the record fetched for a twitter.com or x.com URL has a null duration
\* when its path ends with /video/{index}, index not 1, and the library's
\* duration otherwise, whatever trailing slash or query the URL has.
C7_MultiVideoDuration ==
    \A wi \in Slots :
        /\ IsTwitterHost(Netloc(UrlAt(wi))) \/ IsXHost(Netloc(UrlAt(wi)))
        /\ ~LogAt(wi).hit
        /\ extract_info(ToFetch(UrlAt(wi))).ok
        => /\ LogAt(wi).out.ok
           /\ IsRecord(LogAt(wi).out.val)
           /\ LogAt(wi).out.val.duration =
                 IF IsMultiVideo(UrlAt(wi)) /\ VideoIndex(UrlAt(wi)) # 1
                 THEN None
                 ELSE ProviderDuration(ToFetch(UrlAt(wi)))

SegmentValue(x) == IF x = <<>> THEN 0 ELSE x[1]

\* C8: the token PT[<h>H][<m>M][<s>S] converts to h*3600 + m*60 + s, an
\* absent segment counting as zero (PT1H2M3S: 3723, PT45S: 45, PT2H: 7200,
\* PT: 0).
C8_DurationFormula ==
    dur_out # Pending =>
        dur_out = Ok(SegmentValue(dur_in.h) * 3600
                     + SegmentValue(dur_in.m) * 60 + SegmentValue(dur_in.s))

\* PT1H2M3S has been converted, to 3723
C8_Witness ==
    /\ dur_in = [h |-> <<1>>, m |-> <<2>>, s |-> <<3>>]
    /\ Token(dur_in) = <<"P", "T", "1", "H", "2", "M", "3", "S">>
    /\ dur_out = Ok(3723)

EntriesKept(before, now) ==
    \A id \in DOMAIN before : id \in DOMAIN now /\ now[id] = before[id]

\* C9: a cache entry, once made, holds the same record in every later state,
\* and a URL answered with a rejection adds no entry.
C9_EntriesImmutable ==
    [][/\ EntriesKept(yt_cache, yt_cache')
       /\ \A d \in DOMAIN ytdlp_cache :
             /\ d \in DOMAIN ytdlp_cache'
             /\ EntriesKept(ytdlp_cache[d], ytdlp_cache'[d])
       /\ \A w \in Workers : \A i \in DOMAIN log'[w] :
             log'[w][i].out.ok /\ IsRejection(log'[w][i].out.val)
                => log'[w][i].kept
      ]_vars

EmptyCache == [domain \in accepted_domains |-> <<>>]

\* the adapter's two halves run with nothing in between
Alone(r, yt, dl) == IF r.await THEN answered(r, yt, dl) ELSE r

\* what the adapter returns for the URL when both caches are empty
OnMiss(url) ==
    Alone(dispatch(urlparse(url), <<>>, EmptyCache), <<>>, EmptyCache).out

\* the library's response to the URL it was handed names a domain the
\* cache has a table for
StoreDomainKnown(fetched) ==
    extract_info(fetched).ok /\ first_entry(extract_info(fetched).val).ok =>
        LET r == first_entry(extract_info(fetched).val).val
        IN  "webpage_url_domain" \in DOMAIN r =>
                r["webpage_url_domain"].v \in DOMAIN ytdlp_cache

\* C10: a result served from the cache is the record the adapter returns
\* for that URL on a miss, and no store goes to a domain the cache lacks.
C10_CacheTransparent ==
    \A wi \in Slots :
        /\ LogAt(wi).hit => LogAt(wi).out = OnMiss(UrlAt(wi))
        /\ Netloc(UrlAt(wi)) \notin youtube_domains /\ LogAt(wi).calls # <<>> =>
              StoreDomainKnown(LogAt(wi).calls[1])

=============================================================================
